---------------------------- MODULE Spec2Model ----------------------------
(***************************************************************************)
(* A model of the streaming ASR core of voxa:                              *)
(*   - AudioSlidingWindow  (services/asr/core/sliding_window.py)           *)
(*   - _stitch             (services/asr/core/transcriber.py)              *)
(*   - Transcriber         (services/asr/core/transcriber.py)              *)
(*                                                                         *)
(*   - StreamingRecognize  (services/asr/grpc_service.py)                  *)
(*                                                                         *)
(* Six specifications share the module:                                    *)
(*   SpecWin     one AudioSlidingWindow driven by append/tail_ms/full/clear*)
(*   SpecStitch  the pure function _stitch applied to bounded inputs       *)
(*   Spec        one Transcriber: producers, the event queue, run()        *)
(*   SpecDet     Spec with the engine fixed to _DurationEngine             *)
(*   SpecLive    Spec with engine calls that return, under weak fairness   *)
(*   SpecGrpc    one StreamingRecognize call: client, reader(), generator  *)
(***************************************************************************)
EXTENDS Integers, Sequences, FiniteSets, TLC

VARIABLES
    args,       \* window: the arguments the constructor was called with
    win,        \* window: the AudioSlidingWindow object (its fields)
    ret,        \* window: the most recent call and what it returned
    exc,        \* window: the exception the most recent call raised, or "none"
    fed,        \* window history: samples appended since construction / last clear
    sumN,       \* window history: samples in the frames append accepted
    sPrev,      \* stitch: argument prev
    sNew,       \* stitch: argument new
    sOut,       \* stitch: the returned string
    sPc,        \* stitch: "call" before the call, "done" after it
    cfg,        \* session: the arguments Transcriber was constructed with
    since_emit, \* session: Transcriber._since_emit
    hypothesis, \* session: Transcriber.hypothesis
    q,          \* session: Transcriber.q, the items of the asyncio.Queue
    putters,    \* session: events whose q.put() is suspended on a full queue
    rPc,        \* session: where run() stands (its suspension point)
    rExc,       \* session: the exception that ended run(), or "none"
    engAudio,   \* session: the audio handed to the engine call in flight
    out,        \* session: the (kind, text) pairs run() has yielded
    enqueued,   \* session history: events in the order they entered q
    processed,  \* session history: events in the order run() took them from q
    text,       \* session: run()'s local `text`, the trimmed engine result
    c0,         \* session history: _since_emit when the current frame was taken
    outEv,      \* session history: for each item of out, the event that yielded it
    engLog,     \* session history: engine calls, <<event, samples handed over>>
    engDone,    \* session history: the number of engine calls that have come back
    request_iterator, \* handler: the inbound stream (requests sent, requests taken, its end)
    current_utt,      \* handler: StreamingRecognize's local current_utt
    reader_task,      \* handler: the reader() task (where it stands, how it finished)
    rpc_q,            \* handler: StreamingRecognize's local q, the items of the queue
    rpc_pc,           \* handler: where the response generator stands
    rpc_out           \* handler: the responses the generator has yielded

winVars == <<args, win, ret, exc, fed, sumN>>
stitchVars == <<sPrev, sNew, sOut, sPc>>
sessVars == <<cfg, since_emit, hypothesis, q, putters, rPc, rExc, engAudio,
              out, enqueued, processed, text, c0, outEv, engLog, engDone>>
grpcVars == <<request_iterator, current_utt, reader_task, rpc_q, rpc_pc, rpc_out>>
vars == <<args, win, ret, exc, fed, sumN, sPrev, sNew, sOut, sPc, cfg, since_emit,
          hypothesis, q, putters, rPc, rExc, engAudio, out, enqueued, processed,
          text, c0, outEv, engLog, engDone, request_iterator, current_utt,
          reader_task, rpc_q, rpc_pc, rpc_out>>

---------------------------------------------------------------------------
(* Bounds of the model *)

MaxWindowMs == 2        \* largest window_size_ms tried
MaxFrameSamples == 2    \* longest frame, in whole samples
MaxTotalSamples == 3    \* append is tried while total_samples is below this
MaxTailMs == 3          \* largest ms passed to tail_ms
MaxStrLen == 3          \* longest string handed to _stitch
MaxEvents == 3          \* feed_audio/flush/end calls made on one session
MaxSessFrameSamples == 2 \* longest frame fed to a session, in samples
QueueMaxsize == 2       \* asyncio.Queue(maxsize=1024), scaled down

---------------------------------------------------------------------------
(* Generic helpers *)

Min(a, b) == IF a <= b THEN a ELSE b

Max(a, b) == IF a >= b THEN a ELSE b

SeqsUpTo(S, n) == UNION {[1..k -> S] : k \in 0..n}

\* Python slicing s[-k:] for 1 <= k <= len(s), and s[:k], s[k:] for 0 <= k <= len(s)
LastK(s, k) == SubSeq(s, Len(s) - k + 1, Len(s))

FirstK(s, k) == SubSeq(s, 1, k)

DropK(s, k) == SubSeq(s, k + 1, Len(s))

\* Record constructors list their fields in the order in which the names
\* first occur in this module: that is the order TLC keeps them in, so no
\* record shared between its workers is ever reordered in place.

\* Event(kind, data).  data is <<>> both for None and for b"": run() only
\* tests its truth value before reading it.
Event(kind, data) == [kind |-> kind, data |-> data]

RECURSIVE Flatten(_)
Flatten(ss) == IF ss = <<>> THEN <<>> ELSE Head(ss) \o Flatten(Tail(ss))

---------------------------------------------------------------------------
(* PCM16 little-endian encoding and decoding *)

\* numpy's tobytes() of one int16: two's complement, low byte first.
int16_tobytes(v) ==
    LET u == IF v < 0 THEN v + 65536 ELSE v
    IN  <<u % 256, u \div 256>>

\* The tests' pcm16_values: a list of int16 values packed into bytes.
pcm16_values(values) == Flatten([i \in 1..Len(values) |-> int16_tobytes(values[i])])

\* One int16 read from two bytes, low byte first.
int16_frombytes(lo, hi) ==
    LET u == lo + 256 * hi
    IN  IF u >= 32768 THEN u - 65536 ELSE u

\* the dangling byte dropped instead of refused
frombuffer_Truncating(b) ==
    [exc |-> "none",
     arr |-> [i \in 1..(Len(b) \div 2) |-> int16_frombytes(b[2 * i - 1], b[2 * i])]]

\* np.frombuffer(pcm16_le, dtype=np.int16): raises ValueError unless the byte
\* length is a multiple of the element size, else one sample per two bytes
\* (low byte first: a little-endian host, as the source assumes).
frombuffer(b) ==
    IF Len(b) % 2 # 0
    THEN [exc |-> "ValueError", arr |-> <<>>]
    ELSE [exc |-> "none",
          arr |-> [i \in 1..(Len(b) \div 2) |-> int16_frombytes(b[2 * i - 1], b[2 * i])]]

---------------------------------------------------------------------------
(* collections.deque(maxlen=...) *)

\* a full deque refusing the new item
deque_append_DropNewest(d, maxlen, x) ==
    IF maxlen = 0 THEN d
    ELSE IF Len(d) = maxlen THEN d
    ELSE Append(d, x)

\* a deque that never evicts
deque_append_NoEvict(d, maxlen, x) == Append(d, x)

\* deque.append on a bounded deque: a full deque drops its leftmost item
\* first; a deque of maxlen 0 keeps nothing.
deque_append(d, maxlen, x) ==
    IF maxlen = 0 THEN d
    ELSE IF Len(d) = maxlen THEN Append(Tail(d), x)
    ELSE Append(d, x)

\* deque.extend: append the items one by one, left to right.
RECURSIVE deque_extend(_, _, _)
deque_extend(d, maxlen, items) ==
    IF items = <<>> THEN d
    ELSE deque_extend(deque_append(d, maxlen, Head(items)), maxlen, Tail(items))

---------------------------------------------------------------------------
(* AudioSlidingWindow *)

\* What a variable bound to the object holds when the constructor raised.
NoWindow ==
    [alive |-> FALSE, window_size_ms |-> 0, sample_rate_hz |-> 0, channels |-> 0,
     default_tail_ms |-> 0, max_samples |-> 0, buffer |-> <<>>,
     total_samples |-> 0, since_last_partial |-> 0]

\* __init__ without the channels assertion
AudioSlidingWindow_NoChannelCheck(window_size_ms, sample_rate_hz, channels, default_tail_ms) ==
    IF ~(window_size_ms > 0) \/ ~(sample_rate_hz > 0)
    THEN [win |-> NoWindow, exc |-> "AssertionError"]
    ELSE [win |-> [alive |-> TRUE,
                   window_size_ms |-> window_size_ms,
                   sample_rate_hz |-> sample_rate_hz,
                   channels |-> channels,
                   default_tail_ms |-> default_tail_ms,
                   max_samples |-> (sample_rate_hz * window_size_ms) \div 1000,
                   buffer |-> <<>>,
                   total_samples |-> 0,
                   since_last_partial |-> 0],
          exc |-> "none"]

\* AudioSlidingWindow.__init__: the three assertions (enabled, as in the
\* tests), then the fields.
AudioSlidingWindow(window_size_ms, sample_rate_hz, channels, default_tail_ms) ==
    IF ~(window_size_ms > 0) \/ ~(sample_rate_hz > 0) \/ ~(channels = 1)
    THEN [win |-> NoWindow, exc |-> "AssertionError"]
    ELSE [win |-> [alive |-> TRUE,
                   window_size_ms |-> window_size_ms,
                   sample_rate_hz |-> sample_rate_hz,
                   channels |-> channels,
                   default_tail_ms |-> default_tail_ms,
                   max_samples |-> (sample_rate_hz * window_size_ms) \div 1000,
                   buffer |-> <<>>,
                   total_samples |-> 0,
                   since_last_partial |-> 0],
          exc |-> "none"]

\* AudioSlidingWindow.append: the new object state, the value returned, the
\* exception raised.  frombuffer raises before anything is assigned.
append(w, pcm16_le) ==
    LET r == frombuffer(pcm16_le)
        n == Len(r.arr)
    IN  IF r.exc # "none"
        THEN [win |-> w, exc |-> r.exc, val |-> 0]
        ELSE [win |-> [w EXCEPT !.buffer = deque_extend(w.buffer, w.max_samples, r.arr),
                                !.total_samples = w.total_samples + n,
                                !.since_last_partial = w.since_last_partial + n],
              exc |-> "none",
              val |-> n]

\* AudioSlidingWindow._as_float: int16 -> float32 x / 32768.0.  Every int16
\* over 2^15 is exactly representable in float32, so the value is the
\* rational <<x, 32768>>.
_as_float(x, as_float) ==
    IF ~as_float THEN x
    ELSE [i \in 1..Len(x) |-> <<x[i], 32768>>]

\* AudioSlidingWindow.tail_ms; msOpt is <<>> for ms=None, <<ms>> otherwise.
tail_ms(w, msOpt, as_float) ==
    LET ms == IF msOpt = <<>> THEN w.default_tail_ms ELSE msOpt[1]
        n_samples == Max(0, (w.sample_rate_hz * ms) \div 1000)
        data == w.buffer
    IN  IF n_samples = 0 \/ n_samples >= Len(data)
        THEN _as_float(data, as_float)
        ELSE _as_float(LastK(data, n_samples), as_float)

\* AudioSlidingWindow.full
full(w, as_float) == _as_float(w.buffer, as_float)

\* clear that also zeroes the ever-seen counter
clear_ResetsTotal(w) ==
    [w EXCEPT !.buffer = <<>>, !.since_last_partial = 0, !.total_samples = 0]

\* AudioSlidingWindow.clear
clear(w) == [w EXCEPT !.buffer = <<>>, !.since_last_partial = 0]

\* The read-only properties.
total_samples(w) == w.total_samples

current_samples(w) == Len(w.buffer)

current_duration_ms(w) == (1000 * Len(w.buffer)) \div w.sample_rate_hz

---------------------------------------------------------------------------
(* Inputs of the window specification *)

WindowMsChoices == -1..MaxWindowMs

SampleRateChoices == {0, 500, 1500}

ChannelChoices == {1, 2}

DefaultTailChoices == {1, MaxWindowMs + 1}

SampleValues == {-1, 256}

TailMsChoices == 0..MaxTailMs

\* Frames a caller sends: whole samples packed as the tests pack them,
\* optionally followed by one dangling byte (a misaligned frame).
SampleSeqs == SeqsUpTo(SampleValues, MaxFrameSamples)

DanglingChoices == {<<>>, <<0>>}

\* The stitch variables while _stitch is not under test on its own.
StitchIdle == sPrev = <<>> /\ sNew = <<>> /\ sOut = <<>> /\ sPc = "idle"

\* The handler variables while no RPC is being served.
GrpcIdle ==
    /\ request_iterator = [sent |-> <<>>, taken |-> 0, state |-> "open"]
    /\ current_utt = ""
    /\ reader_task = [exc |-> "none", pc |-> "iter", putting |-> <<>>]
    /\ rpc_q = <<>>
    /\ rpc_pc = "get"
    /\ rpc_out = <<>>

\* The session variables while no Transcriber exists.
SessIdle ==
    /\ cfg = [sample_rate_hz |-> 0, tail_ms |-> 0, window_ms |-> 0,
              stride_ms |-> 0, emit_partials |-> FALSE]
    /\ since_emit = 0
    /\ hypothesis = <<>>
    /\ q = <<>>
    /\ putters = <<>>
    /\ rPc = "idle"
    /\ rExc = "none"
    /\ engAudio = <<>>
    /\ out = <<>>
    /\ enqueued = <<>>
    /\ processed = <<>>
    /\ text = <<>>
    /\ c0 = 0
    /\ outEv = <<>>
    /\ engLog = <<>>
    /\ engDone = 0

---------------------------------------------------------------------------
(* SpecWin: one AudioSlidingWindow and its callers *)

WinInit ==
    /\ \E ws \in WindowMsChoices, sr \in SampleRateChoices,
          ch \in ChannelChoices, dt \in DefaultTailChoices :
          LET r == AudioSlidingWindow(ws, sr, ch, dt)
          IN  /\ args = [window_size_ms |-> ws, sample_rate_hz |-> sr,
                         channels |-> ch, default_tail_ms |-> dt]
              /\ win = r.win
              /\ exc = r.exc
    /\ ret = [op |-> "init"]
    /\ fed = <<>>
    /\ sumN = 0
    /\ StitchIdle
    /\ GrpcIdle
    /\ SessIdle

\* win.append(frame)
DoAppend ==
    /\ win.alive
    /\ win.total_samples < MaxTotalSamples
    /\ \E s \in SampleSeqs, dangling \in DanglingChoices :
          LET frame == pcm16_values(s) \o dangling
              r == append(win, frame)
          IN  /\ win' = r.win
              /\ exc' = r.exc
              /\ ret' = [val |-> r.val, op |-> "append", frame |-> frame]
              /\ fed' = IF r.exc = "none" THEN fed \o s ELSE fed
              /\ sumN' = IF r.exc = "none" THEN sumN + Len(s) ELSE sumN
    /\ UNCHANGED <<grpcVars, args, stitchVars, sessVars>>

\* win.tail_ms(ms, as_float=...)
DoTailMs ==
    /\ win.alive
    /\ \E ms \in TailMsChoices, af \in BOOLEAN :
          ret' = [val |-> tail_ms(win, <<ms>>, af), as_float |-> af, ms |-> ms,
                  op |-> "tail_ms"]
    /\ exc' = "none"
    /\ UNCHANGED <<grpcVars, args, win, fed, sumN, stitchVars, sessVars>>

\* win.tail_ms() with ms omitted
DoTailDefault ==
    /\ win.alive
    /\ ret' = [val |-> tail_ms(win, <<>>, FALSE), op |-> "tail_default"]
    /\ exc' = "none"
    /\ UNCHANGED <<grpcVars, args, win, fed, sumN, stitchVars, sessVars>>

\* win.full(as_float=...)
DoFull ==
    /\ win.alive
    /\ \E af \in BOOLEAN :
          ret' = [val |-> full(win, af), as_float |-> af, op |-> "full"]
    /\ exc' = "none"
    /\ UNCHANGED <<grpcVars, args, win, fed, sumN, stitchVars, sessVars>>

\* win.clear()
DoClear ==
    /\ win.alive
    /\ win' = clear(win)
    /\ ret' = [op |-> "clear"]
    /\ exc' = "none"
    /\ fed' = <<>>
    /\ UNCHANGED <<grpcVars, args, sumN, stitchVars, sessVars>>

WinNext == DoAppend \/ DoTailMs \/ DoTailDefault \/ DoFull \/ DoClear

SpecWin == WinInit /\ [][WinNext]_vars

---------------------------------------------------------------------------
(* Claims about AudioSlidingWindow, checked under SpecWin *)

\* capacitySamples as the specification defines it, from the constructor's
\* arguments: floor(sampleRateHz * windowDurationMs / 1000).
capacitySamples == (args.sample_rate_hz * args.window_size_ms) \div 1000

\* floor(sampleRateHz * ms / 1000)
SamplesOfMs(ms) == (args.sample_rate_hz * ms) \div 1000

\* C1: after any sequence of append and clear operations the number of
\* samples held never exceeds capacitySamples.
C1_CapacityInvariant ==
    win.alive => current_samples(win) <= capacitySamples

\* C1 witness: an append has pushed more samples than the window holds and
\* the window sits exactly at its capacity.
C1_Witness ==
    /\ win.alive
    /\ ret.op = "append"
    /\ capacitySamples >= 1
    /\ Len(fed) > capacitySamples
    /\ current_samples(win) = capacitySamples

\* C2: the buffer content, as full() returns it, is exactly the last
\* min(capacitySamples, samples appended since construction or the last
\* clear) samples of the concatenated appended samples, oldest first, also
\* when one frame is longer than the capacity.
C2_EvictionCorrect ==
    win.alive => full(win, FALSE) = LastK(fed, Min(capacitySamples, Len(fed)))

\* C2 witness: a single frame longer than the capacity was appended to a
\* window that keeps at least one sample, and full() was then read.
C2_Witness ==
    /\ win.alive
    /\ ret.op = "full"
    /\ capacitySamples >= 1
    /\ Len(fed) = MaxFrameSamples
    /\ Len(fed) > capacitySamples
    /\ total_samples(win) = MaxFrameSamples
    /\ Len(ret.val) = capacitySamples

\* C3 (state part): totalSamplesEverAppended is the sum of the sample counts
\* of all successful appends and is at least the current sample count.
C3_TotalIsSum ==
    win.alive => /\ total_samples(win) = sumN
                 /\ total_samples(win) >= current_samples(win)

\* C3 (step part): a successful append of n samples adds exactly n, a failed
\* append and clear leave the total unchanged, and it never decreases.
C3_TotalStep ==
    /\ total_samples(win') >= total_samples(win)
    /\ (ret'.op = "append" /\ exc' = "none")
          => total_samples(win') = total_samples(win) + (Len(ret'.frame) \div 2)
    /\ (ret'.op = "clear") => total_samples(win') = total_samples(win)

\* C3: totalSamplesEverAppended equals the sum of the decoded sample counts
\* of all successful appends; each append of n samples increases it by
\* exactly n whatever was evicted, clear leaves it unchanged, it never
\* decreases and it is always >= the current sample count.
C3_MonotonicTotal == [](C3_TotalIsSum) /\ [][C3_TotalStep]_vars

\* C3 witness: samples were evicted and the window was then cleared, and the
\* total still counts every sample ever appended.
C3_Witness ==
    /\ win.alive
    /\ ret.op = "clear"
    /\ capacitySamples >= 1
    /\ total_samples(win) > capacitySamples
    /\ current_samples(win) = 0

\* C4: for every ms >= 0 (ms = 0 and durations shorter than one sample
\* included) tail(ms) returns exactly min(floor(sampleRateHz * ms / 1000),
\* currentSampleCount) samples, and they are the most recent samples of the
\* buffer, oldest first (a suffix of full()).
C4_TailExact ==
    (win.alive /\ ret.op = "tail_ms" /\ ret.ms >= 0)
        => LET k == Min(SamplesOfMs(ret.ms), current_samples(win))
           IN  /\ Len(ret.val) = k
               /\ ret.val = LastK(full(win, ret.as_float), k)

\* C5: construction with windowDurationMs <= 0, sampleRateHz <= 0 or
\* channels # 1 fails (the constructor raises) and yields no usable buffer;
\* every successfully constructed buffer has channels = 1.
C5_ConstructionValidated ==
    /\ (args.window_size_ms <= 0 \/ args.sample_rate_hz <= 0 \/ args.channels # 1)
          => (~win.alive /\ (ret.op = "init" => exc = "AssertionError"))
    /\ win.alive => win.channels = 1

\* C5 witness: the constructor was called with channels = 2 and otherwise
\* valid arguments, and raised.
C5_Witness ==
    /\ ret.op = "init"
    /\ args.channels = 2
    /\ args.window_size_ms > 0
    /\ args.sample_rate_hz > 0
    /\ exc = "AssertionError"
    /\ ~win.alive

\* One step of C6: a call of append with a misaligned frame raises and
\* changes nothing.
C6_Step ==
    (ret'.op = "append" /\ Len(ret'.frame) % 2 # 0)
        => /\ exc' = "ValueError"
           /\ win' = win
           /\ full(win', FALSE) = full(win, FALSE)
           /\ total_samples(win') = total_samples(win)

\* C6: append of a frame whose byte length is not a multiple of 2 fails
\* (np.frombuffer raises) and leaves the buffer contents and
\* totalSamplesEverAppended exactly as they were before the call: no sample
\* of the bad frame is stored or counted.
C6_MisalignedRejected == [][C6_Step]_vars

\* C6 witness: a misaligned frame carrying a whole sample and a dangling
\* byte was refused by a window that already holds samples.
C6_Witness ==
    /\ win.alive
    /\ ret.op = "append"
    /\ Len(ret.frame) = 3
    /\ exc = "ValueError"
    /\ current_samples(win) >= 1

\* C7: a default tail duration larger than the window duration is stored
\* capped at window_size_ms.
C7_DefaultTailCapped ==
    win.alive => win.default_tail_ms = Min(args.default_tail_ms, win.window_size_ms)

---------------------------------------------------------------------------
(* _stitch: strings are sequences of characters *)

\* str.endswith
endswith(str, suffix) ==
    Len(suffix) <= Len(str) /\ LastK(str, Len(suffix)) = suffix

\* for k in range(k, 0, -1): if prev.endswith(new[:k]): return prev + new[k:]
\* and, after the loop, return prev + new
RECURSIVE stitch_loop(_, _, _)
stitch_loop(prev, new, k) ==
    IF k < 1 THEN prev \o new
    ELSE IF endswith(prev, FirstK(new, k)) THEN prev \o DropK(new, k)
    ELSE stitch_loop(prev, new, k - 1)

\* the loop run upwards: the shortest non-empty overlap wins
RECURSIVE stitch_loop_up(_, _, _, _)
stitch_loop_up(prev, new, k, max_k) ==
    IF k > max_k THEN prev \o new
    ELSE IF endswith(prev, FirstK(new, k)) THEN prev \o DropK(new, k)
    ELSE stitch_loop_up(prev, new, k + 1, max_k)

_stitch_ShortestOverlap(prev, new) ==
    IF prev = <<>> THEN new
    ELSE IF new = <<>> THEN prev
    ELSE stitch_loop_up(prev, new, 1, Min(Len(prev), Len(new)))

\* the loop started one below max_k
_stitch_OffByOne(prev, new) ==
    IF prev = <<>> THEN new
    ELSE IF new = <<>> THEN prev
    ELSE stitch_loop(prev, new, Min(Len(prev), Len(new)) - 1)

\* a stitcher that lets the newest text replace what was there
_stitch_ReplacesPrev(prev, new) == new

\* _stitch(prev, new)
_stitch(prev, new) ==
    IF prev = <<>> THEN new
    ELSE IF new = <<>> THEN prev
    ELSE stitch_loop(prev, new, Min(Len(prev), Len(new)))

---------------------------------------------------------------------------
(* SpecStitch: _stitch applied once to every pair of bounded strings *)

Chars == {"a", "b"}

Strings == SeqsUpTo(Chars, MaxStrLen)

\* The window variables while no window is under test.
WinIdle ==
    /\ args = [window_size_ms |-> 0, sample_rate_hz |-> 0,
               channels |-> 0, default_tail_ms |-> 0]
    /\ win = NoWindow
    /\ ret = [op |-> "idle"]
    /\ exc = "none"
    /\ fed = <<>>
    /\ sumN = 0

StitchInit ==
    /\ sPrev \in Strings
    /\ sNew \in Strings
    /\ sOut = <<>>
    /\ sPc = "call"
    /\ WinIdle
    /\ SessIdle
    /\ GrpcIdle

DoStitch ==
    /\ sPc = "call"
    /\ sOut' = _stitch(sPrev, sNew)
    /\ sPc' = "done"
    /\ UNCHANGED <<grpcVars, sPrev, sNew, winVars, sessVars>>

StitchNext == DoStitch

SpecStitch == StitchInit /\ [][StitchNext]_vars

---------------------------------------------------------------------------
(* Claims about _stitch, checked under SpecStitch *)

\* The k for which the last k characters of prev equal the first k of new.
Overlaps(prev, new) ==
    {k \in 0..Min(Len(prev), Len(new)) : LastK(prev, k) = FirstK(new, k)}

LargestOverlap(prev, new) ==
    CHOOSE k \in Overlaps(prev, new) : \A j \in Overlaps(prev, new) : j <= k

\* C8: _stitch(previous, fragment) = previous + fragment[k:] for the largest
\* k in 0..min(len(previous), len(fragment)) such that the last k characters
\* of previous equal the first k of fragment; with no non-empty overlap the
\* result is previous + fragment.
C8_StitchLargestOverlap ==
    sPc = "done" =>
        /\ sOut = sPrev \o DropK(sNew, LargestOverlap(sPrev, sNew))
        /\ (Overlaps(sPrev, sNew) = {0} => sOut = sPrev \o sNew)

\* C8 witness: stitch has returned for a pair with two non-empty overlaps,
\* the larger of them shorter than the fragment.
C8_Witness ==
    /\ sPc = "done"
    /\ 1 \in Overlaps(sPrev, sNew)
    /\ LargestOverlap(sPrev, sNew) >= 2
    /\ LargestOverlap(sPrev, sNew) < Len(sNew)

\* C9: _stitch(previous, "") = previous, _stitch("", fragment) = fragment and
\* _stitch(s, s) = s.
C9_StitchIdentities ==
    sPc = "done" =>
        /\ (sNew = <<>> => sOut = sPrev)
        /\ (sPrev = <<>> => sOut = sNew)
        /\ (sPrev = sNew => sOut = sPrev)

\* C9 witness: stitch has returned for a non-empty string stitched with
\* itself.
C9_Witness ==
    /\ sPc = "done"
    /\ sPrev = sNew
    /\ Len(sPrev) >= 2
    /\ sOut = sPrev

---------------------------------------------------------------------------
(* Transcriber: events, queue, engine *)

\* a queue that never reports itself full
queue_full_Never(items) == FALSE

\* asyncio.Queue.full()
queue_full(items) == Len(items) >= QueueMaxsize

\* a queue handing out its newest item
queue_get_Lifo(items) ==
    [item |-> items[Len(items)], rest |-> SubSeq(items, 1, Len(items) - 1)]

\* asyncio.Queue.get on a non-empty queue: the oldest item leaves.
queue_get(items) == [item |-> Head(items), rest |-> Tail(items)]

\* str.strip(): leading and trailing whitespace removed.
RECURSIVE lstrip(_)
lstrip(str) ==
    IF str # <<>> /\ Head(str) = " " THEN lstrip(Tail(str)) ELSE str

RECURSIVE rstrip(_)
rstrip(str) ==
    IF str # <<>> /\ str[Len(str)] = " "
    THEN rstrip(SubSeq(str, 1, Len(str) - 1))
    ELSE str

strip(str) == rstrip(lstrip(str))

\* self.stride_samples
stride_samples == Max(1, (cfg.sample_rate_hz * cfg.stride_ms) \div 1000)

\* a reset that forgets the buffer and the counter but keeps the hypothesis
ResetState_KeepsHypothesis ==
    /\ win' = clear(win)
    /\ since_emit' = 0
    /\ UNCHANGED hypothesis

\* Transcriber._reset_state
ResetState ==
    /\ win' = clear(win)
    /\ since_emit' = 0
    /\ hypothesis' = <<>>

---------------------------------------------------------------------------
(* Inputs of the session specification *)

\* Transcriber(engine, sample_rate_hz, window_ms, tail_ms, stride_ms, emit_partials)
TrConfigs ==
    {[sample_rate_hz |-> 1000, tail_ms |-> 2, window_ms |-> 3,
      stride_ms |-> sm, emit_partials |-> ep] : sm \in {1, 2}, ep \in BOOLEAN}

\* A frame of n samples of silence, as _demo builds them.
silence(n) == pcm16_values([i \in 1..n |-> 0])

\* The frames fed: silence of 0..MaxSessFrameSamples samples, and (for the
\* index one past them) a misaligned frame of a single byte.
SessFrames ==
    {IF n <= MaxSessFrameSamples THEN silence(n) ELSE <<0>> :
        n \in 0..(MaxSessFrameSamples + 1)}

\* What an engine.transcribe call may come back with: a text, or a raise.
EngineOutcomes ==
    {[exc |-> "none", text |-> <<>>],
     [exc |-> "none", text |-> <<"a">>],
     [exc |-> "none", text |-> <<" ", "b", " ">>],
     [exc |-> "EngineError", text |-> <<>>]}

\* What an engine.transcribe call that returns may come back with.
EngineReturns ==
    {[exc |-> "none", text |-> <<>>],
     [exc |-> "none", text |-> <<"a">>],
     [exc |-> "none", text |-> <<" ", "b", " ">>]}

\* str(n) for a natural number n
RECURSIVE str(_)
str(n) ==
    LET digit == <<"0", "1", "2", "3", "4", "5", "6", "7", "8", "9">>[(n % 10) + 1]
    IN  IF n < 10 THEN <<digit>> ELSE Append(str(n \div 10), digit)

\* _DurationEngine.transcribe: the duration of the audio, as "<ms>ms"; the
\* engine is built for the session's sample rate, as in _demo.
DurationEngine(audio) ==
    LET ms == (1000 * Len(audio)) \div cfg.sample_rate_hz
    IN  [exc |-> "none", text |-> str(ms) \o <<"m", "s">>]

---------------------------------------------------------------------------
(* Spec: one Transcriber with its producers, run() and run()'s consumer *)

Init ==
    /\ cfg \in TrConfigs
    /\ LET r == AudioSlidingWindow(cfg.window_ms, cfg.sample_rate_hz, 1, 2000)
       IN  /\ win = r.win
           /\ exc = r.exc
    /\ args = [window_size_ms |-> cfg.window_ms, sample_rate_hz |-> cfg.sample_rate_hz,
               channels |-> 1, default_tail_ms |-> 2000]
    /\ ret = [op |-> "init"]
    /\ fed = <<>>
    /\ sumN = 0
    /\ since_emit = 0
    /\ hypothesis = <<>>
    /\ q = <<>>
    /\ putters = <<>>
    /\ rPc = "get"
    /\ rExc = "none"
    /\ engAudio = <<>>
    /\ out = <<>>
    /\ enqueued = <<>>
    /\ processed = <<>>
    /\ text = <<>>
    /\ c0 = 0
    /\ outEv = <<>>
    /\ engLog = <<>>
    /\ engDone = 0
    /\ StitchIdle
    /\ GrpcIdle

winHist == <<args, ret, exc, fed, sumN>>

\* What only run() writes: its locals and the history of what it did.
runHist == <<text, c0, outEv, engLog, engDone>>

\* await self.q.put(ev): the item enters the queue, or the caller is
\* suspended while the queue is full.
Put(ev) ==
    /\ Len(enqueued) + Len(putters) < MaxEvents
    /\ IF queue_full(q)
       THEN /\ putters' = Append(putters, ev)
            /\ UNCHANGED <<grpcVars, q, enqueued>>
       ELSE /\ q' = Append(q, ev)
            /\ enqueued' = Append(enqueued, ev)
            /\ UNCHANGED putters
    /\ UNCHANGED <<grpcVars, win, winHist, stitchVars, cfg, since_emit, hypothesis, rPc, rExc,
                   engAudio, out, processed, runHist>>

\* Transcriber.feed_audio
feed_audio == \E data \in SessFrames : Put(Event("AUDIO", data))

\* Transcriber.flush
flush == Put(Event("FLUSH", <<>>))

\* Transcriber.end
end == Put(Event("END", <<>>))

\* A suspended q.put() completes once the queue has room.
PutResume ==
    /\ ~queue_full(q)
    /\ \E i \in DOMAIN putters :
          /\ q' = Append(q, putters[i])
          /\ enqueued' = Append(enqueued, putters[i])
          /\ putters' = SubSeq(putters, 1, i - 1) \o SubSeq(putters, i + 1, Len(putters))
    /\ UNCHANGED <<grpcVars, win, winHist, stitchVars, cfg, since_emit, hypothesis, rPc, rExc,
                   engAudio, out, processed, runHist>>

\* a q.get() that also completes while an engine call is awaited
Dequeue_Overlapping ==
    /\ rPc \in {"get", "partial_await", "flush_await", "end_await"}
    /\ q # <<>>
    /\ q' = queue_get(q).rest
    /\ processed' = Append(processed, queue_get(q).item)

\* ev = await self.q.get()
Dequeue ==
    /\ rPc = "get"
    /\ q # <<>>
    /\ q' = queue_get(q).rest
    /\ processed' = Append(processed, queue_get(q).item)

\* an AUDIO branch that counts the samples whatever emit_partials says
RunAudio_AlwaysCounts ==
    /\ Dequeue
    /\ LET ev == queue_get(q).item
           r == append(win, ev.data)
       IN  /\ ev.kind = "AUDIO" /\ ev.data # <<>>
           /\ win' = r.win
           /\ c0' = since_emit
           /\ IF r.exc # "none"
              THEN /\ rPc' = "raised"
                   /\ rExc' = r.exc
                   /\ UNCHANGED since_emit
              ELSE /\ since_emit' = since_emit + r.val
                   /\ rPc' = "while"
                   /\ UNCHANGED rExc
    /\ UNCHANGED <<grpcVars, winHist, stitchVars, cfg, hypothesis, putters, engAudio, out, enqueued,
                   text, outEv, engLog, engDone>>

\* run(), AUDIO with data: append, then (with emit_partials) count the samples
RunAudio ==
    /\ Dequeue
    /\ LET ev == queue_get(q).item
           r == append(win, ev.data)
       IN  /\ ev.kind = "AUDIO" /\ ev.data # <<>>
           /\ win' = r.win
           /\ c0' = since_emit
           /\ IF r.exc # "none"
              THEN /\ rPc' = "raised"
                   /\ rExc' = r.exc
                   /\ UNCHANGED since_emit
              ELSE IF cfg.emit_partials
              THEN /\ since_emit' = since_emit + r.val
                   /\ rPc' = "while"
                   /\ UNCHANGED rExc
              ELSE /\ rPc' = "get"
                   /\ UNCHANGED <<grpcVars, since_emit, rExc>>
    /\ UNCHANGED <<grpcVars, winHist, stitchVars, cfg, hypothesis, putters, engAudio, out, enqueued,
                   text, outEv, engLog, engDone>>

\* a loop that stops making partial cycles as soon as events are waiting
RunWhile_SkipsWhenBusy ==
    /\ rPc = "while"
    /\ IF since_emit >= stride_samples /\ q = <<>>
       THEN /\ since_emit' = since_emit - stride_samples
            /\ engAudio' = tail_ms(win, <<cfg.tail_ms>>, TRUE)
            /\ engLog' = Append(engLog, <<Len(processed), Len(engAudio')>>)
            /\ rPc' = "partial_await"
       ELSE /\ rPc' = "get"
            /\ UNCHANGED <<grpcVars, since_emit, engAudio, engLog>>
    /\ UNCHANGED <<grpcVars, win, winHist, stitchVars, cfg, hypothesis, q, putters, rExc, out,
                   enqueued, processed, text, c0, outEv, engDone>>

\* a loop that goes on only while the counter exceeds the stride
RunWhile_StrictCompare ==
    /\ rPc = "while"
    /\ IF since_emit > stride_samples
       THEN /\ since_emit' = since_emit - stride_samples
            /\ engAudio' = tail_ms(win, <<cfg.tail_ms>>, TRUE)
            /\ engLog' = Append(engLog, <<Len(processed), Len(engAudio')>>)
            /\ rPc' = "partial_await"
       ELSE /\ rPc' = "get"
            /\ UNCHANGED <<grpcVars, since_emit, engAudio, engLog>>
    /\ UNCHANGED <<grpcVars, win, winHist, stitchVars, cfg, hypothesis, q, putters, rExc, out,
                   enqueued, processed, text, c0, outEv, engDone>>

\* a loop whose every further cycle of a frame reads one millisecond less
RunWhile_ShrinkingTail ==
    /\ rPc = "while"
    /\ IF since_emit >= stride_samples
       THEN /\ since_emit' = since_emit - stride_samples
            /\ LET earlier == {i \in DOMAIN engLog : engLog[i][1] = Len(processed)}
               IN  engAudio' = tail_ms(win, <<cfg.tail_ms - Cardinality(earlier)>>, TRUE)
            /\ engLog' = Append(engLog, <<Len(processed), Len(engAudio')>>)
            /\ rPc' = "partial_await"
       ELSE /\ rPc' = "get"
            /\ UNCHANGED <<grpcVars, since_emit, engAudio, engLog>>
    /\ UNCHANGED <<grpcVars, win, winHist, stitchVars, cfg, hypothesis, q, putters, rExc, out,
                   enqueued, processed, text, c0, outEv, engDone>>

\* run(), the head of `while self._since_emit >= self.stride_samples`: one
\* more cycle reads the tail and calls the engine, or the loop is left.
RunWhile ==
    /\ rPc = "while"
    /\ IF since_emit >= stride_samples
       THEN /\ since_emit' = since_emit - stride_samples
            /\ engAudio' = tail_ms(win, <<cfg.tail_ms>>, TRUE)
            /\ engLog' = Append(engLog, <<Len(processed), Len(engAudio')>>)
            /\ rPc' = "partial_await"
       ELSE /\ rPc' = "get"
            /\ UNCHANGED <<grpcVars, since_emit, engAudio, engLog>>
    /\ UNCHANGED <<grpcVars, win, winHist, stitchVars, cfg, hypothesis, q, putters, rExc, out,
                   enqueued, processed, text, c0, outEv, engDone>>

\* run(), the engine call of a partial cycle comes back with one of `outcomes`
PartialReturnWith(outcomes) ==
    /\ rPc = "partial_await"
    /\ engDone' = engDone + 1
    /\ \E res \in outcomes :
          IF res.exc # "none"
          THEN /\ rPc' = "raised"
               /\ rExc' = res.exc
               /\ UNCHANGED <<grpcVars, hypothesis, out, text, outEv>>
          ELSE /\ text' = strip(res.text)
               /\ IF text' # <<>>
                  THEN /\ hypothesis' = _stitch(hypothesis, text')
                       /\ out' = Append(out, <<"PARTIAL", hypothesis'>>)
                       /\ outEv' = Append(outEv, Len(processed))
                       /\ rPc' = "partial_yield"
                       /\ UNCHANGED rExc
                  ELSE /\ rPc' = "while"
                       /\ UNCHANGED <<grpcVars, hypothesis, out, rExc, outEv>>
    /\ UNCHANGED <<grpcVars, win, winHist, stitchVars, cfg, since_emit, q, putters, engAudio,
                   enqueued, processed, c0, engLog>>

PartialReturn == PartialReturnWith(EngineOutcomes)

\* a finalisation whose FINAL is yielded whether or not there is any text
Finalize_AlwaysYields(txt, yieldPc, nextPc) ==
    LET final_text == IF txt # <<>> THEN _stitch(hypothesis, txt) ELSE hypothesis
    IN  /\ out' = Append(out, <<"FINAL", final_text>>)
        /\ outEv' = Append(outEv, Len(processed'))
        /\ rPc' = yieldPc
        /\ UNCHANGED <<grpcVars, win, since_emit, hypothesis>>

\* run(), FLUSH/END once the recognised text is known: yield FINAL when the
\* final text is non-empty, else reset at once.
Finalize(txt, yieldPc, nextPc) ==
    LET final_text == IF txt # <<>> THEN _stitch(hypothesis, txt) ELSE hypothesis
    IN  IF final_text # <<>>
        THEN /\ out' = Append(out, <<"FINAL", final_text>>)
             /\ outEv' = Append(outEv, Len(processed'))
             /\ rPc' = yieldPc
             /\ UNCHANGED <<grpcVars, win, since_emit, hypothesis>>
        ELSE /\ ResetState
             /\ rPc' = nextPc
             /\ UNCHANGED <<grpcVars, out, outEv>>

\* a control event that calls the engine whatever the buffer holds
Control_AlwaysRecognises(kind, awaitPc, yieldPc, nextPc) ==
    /\ Dequeue
    /\ queue_get(q).item.kind = kind
    /\ engAudio' = full(win, TRUE)
    /\ engLog' = Append(engLog, <<Len(processed'), Len(engAudio')>>)
    /\ rPc' = awaitPc
    /\ UNCHANGED <<grpcVars, win, since_emit, hypothesis, out, text, outEv>>
    /\ UNCHANGED <<grpcVars, winHist, stitchVars, cfg, putters, rExc, enqueued, c0, engDone>>

\* run(), a control event: read full(); call the engine if it is non-empty
Control(kind, awaitPc, yieldPc, nextPc) ==
    /\ Dequeue
    /\ queue_get(q).item.kind = kind
    /\ IF Len(full(win, TRUE)) # 0
       THEN /\ engAudio' = full(win, TRUE)
            /\ engLog' = Append(engLog, <<Len(processed'), Len(engAudio')>>)
            /\ rPc' = awaitPc
            /\ UNCHANGED <<grpcVars, win, since_emit, hypothesis, out, text, outEv>>
       ELSE /\ text' = <<>>
            /\ Finalize(<<>>, yieldPc, nextPc)
            /\ UNCHANGED <<grpcVars, engAudio, engLog>>
    /\ UNCHANGED <<grpcVars, winHist, stitchVars, cfg, putters, rExc, enqueued, c0, engDone>>

\* run(), the engine call of a control event comes back with one of `outcomes`
ControlReturnWith(outcomes, awaitPc, yieldPc, nextPc) ==
    /\ rPc = awaitPc
    /\ engDone' = engDone + 1
    /\ UNCHANGED <<grpcVars, winHist, stitchVars, cfg, q, putters, engAudio, enqueued, processed,
                   c0, engLog>>
    /\ \E res \in outcomes :
          IF res.exc # "none"
          THEN /\ rPc' = "raised"
               /\ rExc' = res.exc
               /\ UNCHANGED <<grpcVars, win, since_emit, hypothesis, out, text, outEv>>
          ELSE /\ text' = strip(res.text)
               /\ Finalize(text', yieldPc, nextPc)
               /\ UNCHANGED rExc

ControlReturn(awaitPc, yieldPc, nextPc) ==
    ControlReturnWith(EngineOutcomes, awaitPc, yieldPc, nextPc)

RunFlush == Control("FLUSH", "flush_await", "flush_yield", "get")

FlushReturn == ControlReturn("flush_await", "flush_yield", "get")

\* an END after which run() goes back to waiting for events
RunEnd_StaysActive == Control("END", "end_await", "end_yield", "get")

RunEnd == Control("END", "end_await", "end_yield", "done")

EndReturn == ControlReturn("end_await", "end_yield", "done")

\* run(), AUDIO without data: no branch applies, back to q.get()
RunNoop ==
    /\ Dequeue
    /\ queue_get(q).item.kind = "AUDIO" /\ queue_get(q).item.data = <<>>
    /\ UNCHANGED <<grpcVars, win, winHist, stitchVars, cfg, since_emit, hypothesis, putters, rPc,
                   rExc, engAudio, out, enqueued, runHist>>

\* The consumer of run() asks for the next item: run() resumes after its yield.
ResumePartial ==
    /\ rPc = "partial_yield"
    /\ rPc' = "while"
    /\ UNCHANGED <<grpcVars, win, winHist, stitchVars, cfg, since_emit, hypothesis, q, putters,
                   rExc, engAudio, out, enqueued, processed, runHist>>

\* a resumption after FLUSH that clears the window but keeps the hypothesis
ResumeFlush_ClearsOnlyWindow ==
    /\ rPc = "flush_yield"
    /\ win' = clear(win)
    /\ since_emit' = 0
    /\ rPc' = "get"
    /\ UNCHANGED <<grpcVars, winHist, stitchVars, cfg, hypothesis, q, putters, rExc, engAudio, out,
                   enqueued, processed, runHist>>

ResumeFlush ==
    /\ rPc = "flush_yield"
    /\ ResetState
    /\ rPc' = "get"
    /\ UNCHANGED <<grpcVars, winHist, stitchVars, cfg, q, putters, rExc, engAudio, out,
                   enqueued, processed, runHist>>

ResumeEnd ==
    /\ rPc = "end_yield"
    /\ ResetState
    /\ rPc' = "done"
    /\ UNCHANGED <<grpcVars, winHist, stitchVars, cfg, q, putters, rExc, engAudio, out,
                   enqueued, processed, runHist>>

Next ==
    \/ feed_audio
    \/ flush
    \/ end
    \/ PutResume
    \/ RunAudio
    \/ RunWhile
    \/ PartialReturn
    \/ RunFlush
    \/ FlushReturn
    \/ RunEnd
    \/ EndReturn
    \/ RunNoop
    \/ ResumePartial
    \/ ResumeFlush
    \/ ResumeEnd

Spec == Init /\ [][Next]_vars

---------------------------------------------------------------------------
(* SpecDet: the same Transcriber driving the deterministic _DurationEngine *)

DetPartialReturn == PartialReturnWith({DurationEngine(engAudio)})

DetFlushReturn ==
    ControlReturnWith({DurationEngine(engAudio)}, "flush_await", "flush_yield", "get")

DetEndReturn ==
    ControlReturnWith({DurationEngine(engAudio)}, "end_await", "end_yield", "done")

NextDet ==
    \/ feed_audio
    \/ flush
    \/ end
    \/ PutResume
    \/ RunAudio
    \/ RunWhile
    \/ DetPartialReturn
    \/ RunFlush
    \/ DetFlushReturn
    \/ RunEnd
    \/ DetEndReturn
    \/ RunNoop
    \/ ResumePartial
    \/ ResumeFlush
    \/ ResumeEnd

SpecDet == Init /\ [][NextDet]_vars

---------------------------------------------------------------------------
(* SpecLive: the Transcriber with an engine whose calls all return, run() *)
(* scheduled whenever it can go on, and a consumer that keeps asking      *)

LivePartialReturn == PartialReturnWith(EngineReturns)

LiveFlushReturn ==
    ControlReturnWith(EngineReturns, "flush_await", "flush_yield", "get")

LiveEndReturn ==
    ControlReturnWith(EngineReturns, "end_await", "end_yield", "done")

\* run() goes on by itself: the event loop resumes it when an item is in the
\* queue or when its engine call has come back.
RunStep ==
    \/ RunAudio
    \/ RunWhile
    \/ LivePartialReturn
    \/ RunFlush
    \/ LiveFlushReturn
    \/ RunEnd
    \/ LiveEndReturn
    \/ RunNoop

\* `async for kind, text in tr.run()`: the consumer asks for the next item.
ConsumerStep ==
    \/ ResumePartial
    \/ ResumeFlush
    \/ ResumeEnd

NextLive ==
    \/ feed_audio
    \/ flush
    \/ end
    \/ PutResume
    \/ RunStep
    \/ ConsumerStep

SpecLive ==
    /\ Init
    /\ [][NextLive]_vars
    /\ WF_vars(RunStep)
    /\ WF_vars(ConsumerStep)
    /\ WF_vars(PutResume)

---------------------------------------------------------------------------
(* Claims about the Transcriber session, checked under Spec *)

\* The positions of END events in a sequence of events.
EndPositions(evs) == {i \in DOMAIN evs : evs[i].kind = "END"}

\* C10: events are processed strictly in the order they were enqueued by
\* feed_audio/flush/end: what run() has taken from the queue, followed by
\* what still waits in it, is exactly what was enqueued (nothing dropped,
\* duplicated or reordered), and a session terminated by END has processed
\* every event up to and including the first END enqueued.
C10_ProcessedInArrivalOrder ==
    /\ processed \o q = enqueued
    /\ rPc = "done" => /\ EndPositions(processed) = {Len(processed)}
                       /\ processed = FirstK(enqueued, Len(processed))

\* C10 witness: a session terminated by END after run() took an audio frame
\* with data, a FLUSH and the END from the queue and yielded something.
C10_Witness ==
    /\ rPc = "done"
    /\ Len(processed) = 3
    /\ processed[1].kind = "AUDIO" /\ processed[1].data # <<>>
    /\ processed[2].kind = "FLUSH"
    /\ processed[3].kind = "END"
    /\ out # <<>>

\* FLUSH and END are the control events.
IsControl(ev) == ev.kind \in {"FLUSH", "END"}

\* The positions in out of what run() yielded while processing event k.
EmittedBy(k) == {i \in DOMAIN out : outEv[i] = k}

\* No frame with data was processed between event k and the control event
\* before it (or the start of the session).
NoAudioSinceReset(k) ==
    \A j \in 1..(k - 1) :
        (\A i \in j..(k - 1) : ~IsControl(processed[i])) => processed[j].data = <<>>

\* The step in which run() reaches `if final_text:` for a control event:
\* its engine call returned, or it was taken with an empty buffer.
Finalizing ==
    \/ rPc \in {"flush_await", "end_await"} /\ rPc' \notin {rPc, "raised"}
    \/ /\ processed' # processed
       /\ IsControl(processed'[Len(processed')])
       /\ rPc' \notin {"flush_await", "end_await"}

C11_PerEvent ==
    \A k \in DOMAIN processed :
        IsControl(processed[k]) =>
            /\ Cardinality(EmittedBy(k)) <= 1
            /\ \A i \in EmittedBy(k) : out[i][1] = "FINAL" /\ out[i][2] # <<>>
            /\ NoAudioSinceReset(k) => EmittedBy(k) = {}

C11_Step ==
    IF Finalizing
    THEN LET resulting == IF text' # <<>> THEN _stitch(hypothesis, text') ELSE hypothesis
         IN  /\ text' = strip(text')
             /\ out' = IF resulting # <<>> THEN Append(out, <<"FINAL", resulting>>)
                                           ELSE out
    ELSE (processed' # <<>> /\ IsControl(processed'[Len(processed')])) => out' = out

\* C11: processing a FLUSH or an END emits exactly one FINAL, carrying the
\* running hypothesis stitched with the trimmed recognition of the full
\* buffer, when that text is non-empty, and emits nothing when it is empty;
\* no control event ever yields more than one FINAL or anything else, and a
\* control event with no audio since the previous reset yields nothing.
C11_OneFinalPerControl == [](C11_PerEvent) /\ [][C11_Step]_vars

\* C11 witness: a FLUSH after a frame with data has yielded the only FINAL,
\* and the END that followed it with no audio in between has completed
\* without yielding anything.
C11_Witness ==
    /\ rPc = "done"
    /\ Len(processed) = 3
    /\ processed[1].kind = "AUDIO" /\ processed[1].data # <<>>
    /\ processed[2].kind = "FLUSH"
    /\ processed[3].kind = "END"
    /\ Len(out) = 1 /\ out[1][1] = "FINAL" /\ outEv = <<2>>

\* The event run() took last from the queue is of one of the given kinds.
CurrentIs(kinds) == processed # <<>> /\ processed[Len(processed)].kind \in kinds

C12_AfterControl ==
    (CurrentIs({"FLUSH", "END"}) /\ rPc \in {"get", "done"}) =>
        /\ current_samples(win) = 0
        /\ full(win, TRUE) = <<>>
        /\ since_emit = 0
        /\ hypothesis = <<>>

C12_Step ==
    (\/ hypothesis # <<>> /\ hypothesis' = <<>>
     \/ current_samples(win) > 0 /\ current_samples(win') = 0) =>
        /\ processed' # <<>> /\ IsControl(processed'[Len(processed')])
        /\ hypothesis' = <<>>
        /\ current_samples(win') = 0
        /\ since_emit' = 0

\* C12: when run() has finished processing a FLUSH (it waits for the next
\* event) or an END (it has returned), the buffer is empty, _since_emit is 0
\* and the hypothesis is empty; the hypothesis is emptied only in a step that
\* leaves the buffer empty and the counter 0, the buffer is emptied only in
\* a step that leaves the hypothesis empty, and both happen only while the
\* event being processed is a FLUSH or an END, never an AUDIO.
C12_ResetWithClear == [](C12_AfterControl) /\ [][C12_Step]_vars

\* C12 witness: a FLUSH has been processed to the end after a PARTIAL and a
\* FINAL were yielded for the audio before it; everything is reset.
C12_Witness ==
    /\ rPc = "get"
    /\ CurrentIs({"FLUSH"})
    /\ Len(out) >= 2
    /\ out[1][1] = "PARTIAL"
    /\ out[Len(out)][1] = "FINAL"
    /\ hypothesis = <<>> /\ current_samples(win) = 0 /\ since_emit = 0
    /\ total_samples(win) > 0

IsPrefix(s, t) == Len(s) <= Len(t) /\ SubSeq(t, 1, Len(s)) = s

\* Event k has been processed to its end, _reset_state included.
ResetDone(k) ==
    /\ IsControl(processed[k])
    /\ k < Len(processed) \/ rPc \in {"get", "done"}

\* The last event whose processing ended in _reset_state (0: none so far).
LastReset ==
    LET done == {k \in DOMAIN processed : ResetDone(k)}
    IN  IF done = {} THEN 0 ELSE CHOOSE m \in done : \A k \in done : k <= m

\* The positions in out of what was yielded in the current utterance segment.
SegmentOut == {i \in DOMAIN out : outEv[i] > LastReset}

C13_SegmentChain ==
    /\ \A i, j \in SegmentOut : i < j =>
          /\ out[i][1] = "PARTIAL"
          /\ IsPrefix(out[i][2], out[j][2])
    /\ \A i \in SegmentOut : out[i][1] = "PARTIAL" => IsPrefix(out[i][2], hypothesis)

C13_Step == hypothesis' = <<>> \/ IsPrefix(hypothesis, hypothesis')

\* C13: between two resets the hypothesis never shrinks: each new value has
\* the previous one as a prefix (a reset empties it); so among the items
\* yielded in one utterance segment every PARTIAL text is a prefix of each
\* later PARTIAL text, of the segment's FINAL text, which comes last, and
\* of the hypothesis held since.
C13_HypothesisGrows == [](C13_SegmentChain) /\ [][C13_Step]_vars

\* C13 witness: one segment has yielded two PARTIALs with different texts
\* and then its FINAL; run() is suspended at that yield, before the reset.
C13_Witness ==
    /\ rPc = "flush_yield"
    /\ Len(out) = 3
    /\ SegmentOut = {1, 2, 3}
    /\ out[1][1] = "PARTIAL" /\ out[2][1] = "PARTIAL" /\ out[3][1] = "FINAL"
    /\ out[1][2] # out[2][2]
    /\ out[2][2] # out[3][2]

\* run() has taken an END from the queue.
EndTaken == EndPositions(processed) # {}

C14_EndIsLast ==
    EndTaken =>
        /\ EndPositions(processed) = {Len(processed)}
        /\ rPc \in {"end_await", "end_yield", "done", "raised"}

C14_Step ==
    /\ EndTaken => processed' = processed
    /\ rPc = "done" =>
          /\ rPc' = "done"
          /\ UNCHANGED <<grpcVars, win, since_emit, hypothesis, text, engAudio, engLog, out, outEv>>
          /\ IsPrefix(q, q')

\* C14: once run() has taken an END from the queue it takes nothing more:
\* the END stays the last event processed and run() only finishes that END;
\* once it has returned (ENDED) it stays so, and events enqueued from then
\* on stay in the queue and change neither the buffer, the counter, the
\* hypothesis, the engine calls made nor the items yielded.
C14_EndedIsTerminal == [](C14_EndIsLast) /\ [][C14_Step]_vars

\* C14 witness: run() has returned after an END, and a frame with data
\* enqueued behind that END sits in the queue.
C14_Witness ==
    /\ rPc = "done"
    /\ q # <<>>
    /\ q[Len(q)].kind = "AUDIO" /\ q[Len(q)].data # <<>>
    /\ Len(enqueued) > Len(processed)
    /\ current_samples(win) = 0

\* C15: in a session constructed with emit_partials false no PARTIAL is ever
\* yielded, every engine call made belongs to a FLUSH or an END (none to an
\* AUDIO event), run() never stands in the partial-emission loop, and
\* _since_emit stays 0.
C15_FinalOnlyMode ==
    ~cfg.emit_partials =>
        /\ \A i \in DOMAIN out : out[i][1] = "FINAL"
        /\ \A i \in DOMAIN engLog : IsControl(processed[engLog[i][1]])
        /\ rPc \notin {"while", "partial_await", "partial_yield"}
        /\ since_emit = 0

\* C15 witness: with emit_partials false, a frame at least one stride long
\* was appended, and the FLUSH after it made the session's only engine call
\* and yielded a FINAL.
C15_Witness ==
    /\ ~cfg.emit_partials
    /\ Len(processed) = 2
    /\ processed[1].kind = "AUDIO"
    /\ Len(processed[1].data) = 2 * stride_samples
    /\ processed[2].kind = "FLUSH"
    /\ rPc = "flush_yield"
    /\ Len(engLog) = 1 /\ engLog[1][1] = 2
    /\ Len(out) = 1

---------------------------------------------------------------------------
(* Claims about the session with the deterministic engine, under SpecDet *)

\* run() executed alone on a given sequence of events, with no producer and
\* no waiting in between: the state it starts from, ...
SeqStart ==
    [win |-> AudioSlidingWindow(cfg.window_ms, cfg.sample_rate_hz, 1, 2000).win,
     since_emit |-> 0, hypothesis |-> <<>>, out |-> <<>>, halted |-> FALSE]

\* ... the partial cycles of one frame, ...
RECURSIVE SeqCycles(_)
SeqCycles(st) ==
    IF st.since_emit < stride_samples
    THEN st
    ELSE LET txt == strip(DurationEngine(tail_ms(st.win, <<cfg.tail_ms>>, TRUE)).text)
             hyp == IF txt # <<>> THEN _stitch(st.hypothesis, txt) ELSE st.hypothesis
         IN  SeqCycles([st EXCEPT
                 !.since_emit = st.since_emit - stride_samples,
                 !.hypothesis = hyp,
                 !.out = IF txt # <<>> THEN Append(st.out, <<"PARTIAL", hyp>>)
                                       ELSE st.out])

\* ... one event, ...
SeqEvent(st, ev) ==
    IF st.halted THEN st
    ELSE IF ev.kind = "AUDIO"
    THEN IF ev.data = <<>> THEN st
         ELSE LET r == append(st.win, ev.data)
              IN  IF r.exc # "none" THEN [st EXCEPT !.halted = TRUE]
                  ELSE IF cfg.emit_partials
                  THEN SeqCycles([st EXCEPT !.win = r.win,
                                            !.since_emit = st.since_emit + r.val])
                  ELSE [st EXCEPT !.win = r.win]
    ELSE LET audio == full(st.win, TRUE)
             txt == IF audio # <<>> THEN strip(DurationEngine(audio).text) ELSE <<>>
             final_text == IF txt # <<>> THEN _stitch(st.hypothesis, txt)
                                         ELSE st.hypothesis
         IN  [win |-> clear(st.win), since_emit |-> 0, hypothesis |-> <<>>,
              out |-> IF final_text # <<>> THEN Append(st.out, <<"FINAL", final_text>>)
                                           ELSE st.out,
              halted |-> ev.kind = "END"]

\* ... and a whole sequence of events.
RECURSIVE SeqRun(_)
SeqRun(evs) ==
    IF evs = <<>> THEN SeqStart
    ELSE SeqEvent(SeqRun(SubSeq(evs, 1, Len(evs) - 1)), evs[Len(evs)])

\* What a session must yield for a sequence of events, however it is run.
Expected(evs) == SeqRun(evs).out

\* C16: with the deterministic engine and a fixed configuration, what the
\* session has yielded is determined by the sequence of events enqueued and
\* by how far run() has got in it, whatever the interleaving of producers,
\* consumer and engine calls: it is always a prefix of the output of the
\* sequential run over the events enqueued, and whenever run() waits for
\* its next event or has ended it is exactly the output of the sequential
\* run over the events it has taken.
C16_OutputDetermined ==
    /\ IsPrefix(out, Expected(enqueued))
    /\ rPc \in {"get", "done", "raised"} =>
          out = Expected(FirstK(enqueued, Len(processed)))

\* C16 witness: run() has worked through a frame that made partial cycles
\* while further events were being enqueued behind it, then a FLUSH, and
\* has yielded a PARTIAL and a FINAL.
C16_Witness ==
    /\ rPc = "get"
    /\ Len(processed) = 2
    /\ processed[2].kind = "FLUSH"
    /\ Len(enqueued) = 3
    /\ Len(out) >= 2
    /\ out[1][1] = "PARTIAL"
    /\ out[Len(out)][1] = "FINAL"
    /\ out = Expected(enqueued)

---------------------------------------------------------------------------
(* Further claims about the Transcriber session, checked under Spec *)

\* A frame whose byte length is not a whole number of samples.
Misaligned(ev) == ev.kind = "AUDIO" /\ Len(ev.data) % 2 = 1

\* C17: a misaligned AUDIO frame fails for that event only and the session
\* stays active: the error of append never ends run(), so run() goes on to
\* take the events enqueued after the bad frame.
C17_BadFrameSurvived ==
    \A k \in DOMAIN processed :
        Misaligned(processed[k]) => ~(rPc = "raised" /\ rExc = "ValueError")

\* Every event handed to q.put() that got into the queue, in queue order.
Accepted == processed \o q

C18_Bounded == Len(q) <= QueueMaxsize

C18_Step ==
    \/ /\ Accepted' = Accepted
       /\ putters' = putters
    \/ /\ ~queue_full(q)
       /\ \E e \in {q'[Len(q')]} : q' = Append(q, e)
       /\ processed' = processed
       /\ putters' = putters
    \/ /\ queue_full(q)
       /\ \E e \in {putters'[Len(putters')]} : putters' = Append(putters, e)
       /\ q' = q /\ processed' = processed
    \/ /\ ~queue_full(q)
       /\ \E i \in DOMAIN putters :
             /\ putters' = SubSeq(putters, 1, i - 1) \o SubSeq(putters, i + 1, Len(putters))
             /\ q' = Append(q, putters[i])
       /\ processed' = processed

\* C18: the queue never holds more than its capacity; an event put while
\* the queue is full does not enter it, its producer waits (putters) and the
\* queue is left as it is; an event enters the queue only while there is
\* room; and no event is lost or overwritten: in every step the events
\* accepted so far stay as they are, in order, or gain the one event put, and
\* a waiting event leaves the waiting producers only by entering the queue.
C18_Backpressure == [](C18_Bounded) /\ [][C18_Step]_vars

\* C18 witness: the queue holds as many events as it can, and a producer that
\* put one more, an END, is suspended in q.put().
C18_Witness ==
    /\ Len(q) = QueueMaxsize
    /\ Len(putters) = 1
    /\ putters[1].kind = "END"
    /\ Len(enqueued) = QueueMaxsize

\* The samples of a frame that append accepts.
FrameSamples(ev) == Len(ev.data) \div 2

\* The engine calls made while processing event k.
CallsOf(k) == {i \in DOMAIN engLog : engLog[i][1] = k}

\* The samples appended by events (m + 1)..k of those run() has taken.
RECURSIVE SamplesBetween(_, _)
SamplesBetween(m, k) ==
    IF k <= m THEN 0
    ELSE SamplesBetween(m, k - 1) +
         (IF processed[k].kind = "AUDIO" /\ ~Misaligned(processed[k])
          THEN FrameSamples(processed[k]) ELSE 0)

\* run() is processing, or has just processed, a well-formed frame with data.
FrameCurrent ==
    /\ CurrentIs({"AUDIO"})
    /\ processed[Len(processed)].data # <<>>
    /\ ~Misaligned(processed[Len(processed)])

\* C19: with emit_partials, for a frame of n samples taken while the
\* counter held c0 (always below the stride), the cycles started so far and
\* the counter add up to c0 + n at every point of the frame's processing,
\* and once run() waits for its next event the frame has made exactly
\* (c0 + n) div stride cycles and left the counter at (c0 + n) mod stride;
\* the counter is in 0..stride-1 whenever run() waits for an event; and
\* while the audio appended since the last reset is less than one stride,
\* the segment has no partial cycle and no PARTIAL.
C19_StrideCadence ==
    cfg.emit_partials =>
        /\ FrameCurrent =>
              LET k == Len(processed)
                  n == FrameSamples(processed[k])
              IN  /\ c0 \in 0..(stride_samples - 1)
                  /\ since_emit + stride_samples * Cardinality(CallsOf(k)) = c0 + n
                  /\ rPc = "get" =>
                        /\ Cardinality(CallsOf(k)) = (c0 + n) \div stride_samples
                        /\ since_emit = (c0 + n) % stride_samples
        /\ rPc = "get" => since_emit \in 0..(stride_samples - 1)
        /\ SamplesBetween(LastReset, Len(processed)) < stride_samples =>
              /\ SegmentOut \subseteq {i \in DOMAIN out : out[i][1] = "FINAL"}
              /\ \A k \in (LastReset + 1)..Len(processed) :
                    processed[k].kind = "AUDIO" => CallsOf(k) = {}

\* C19 witness: with a stride of two samples, a frame of two samples taken
\* while the counter held 1 has made one cycle and left the counter at 1.
C19_Witness ==
    /\ cfg.emit_partials
    /\ stride_samples = 2
    /\ rPc = "get"
    /\ FrameCurrent
    /\ c0 = 1
    /\ FrameSamples(processed[Len(processed)]) = 2
    /\ Cardinality(CallsOf(Len(processed))) = 1
    /\ since_emit = 1

\* The last control event before event k (0: none).
ResetBefore(k) ==
    LET ctl == {m \in 1..(k - 1) : IsControl(processed[m])}
    IN  IF ctl = {} THEN 0 ELSE CHOOSE m \in ctl : \A j \in ctl : j <= m

\* The stride boundaries the samples of event k cross, counted in the
\* audio appended since the reset before it.
Crossed(k) ==
    LET before == SamplesBetween(ResetBefore(k), k - 1)
    IN  (SamplesBetween(ResetBefore(k), k) \div stride_samples)
            - (before \div stride_samples)

C20_PerEvent ==
    \A k \in DOMAIN processed :
        IF IsControl(processed[k])
        THEN /\ Cardinality(CallsOf(k)) <= 1
             /\ NoAudioSinceReset(k) => CallsOf(k) = {}
        ELSE Cardinality(CallsOf(k)) <= Crossed(k)

C20_Step ==
    engLog' # engLog =>
        LET k == Len(processed')
        IN  /\ engLog' = Append(engLog, <<k, Len(engAudio')>>)
            /\ IsControl(processed'[k]) =>
                  /\ current_samples(win) > 0
                  /\ engAudio' = full(win, TRUE)

\* C20: the engine is called at most once for each stride boundary that the
\* samples of an AUDIO event cross, and at most once for each FLUSH or END;
\* a call for a FLUSH or an END is made only with a non-empty buffer, which
\* it is handed whole, so a control event with no audio since the previous
\* reset makes no call.
C20_EngineCallsBounded == [](C20_PerEvent) /\ [][C20_Step]_vars

\* C20 witness: a frame crossing two stride boundaries made two engine
\* calls, the FLUSH after it one, and the END after that, taken with an
\* empty buffer, none.
C20_Witness ==
    /\ rPc = "done"
    /\ Len(processed) = 3
    /\ processed[2].kind = "FLUSH"
    /\ Crossed(1) = 2
    /\ Cardinality(CallsOf(1)) = 2
    /\ Cardinality(CallsOf(2)) = 1
    /\ CallsOf(3) = {}

\* The engine calls made that have not come back yet.
InFlight == Len(engLog) - engDone

C21_AtMostOne ==
    /\ InFlight \in {0, 1}
    /\ InFlight = 1 <=> rPc \in {"partial_await", "flush_await", "end_await"}

C21_Step ==
    /\ processed' # processed => InFlight = 0
    /\ engLog' # engLog => InFlight = 0
    /\ out' # out =>
          /\ engDone' = engDone + 1
          /\ Len(out') = Len(out) + 1
          /\ SubSeq(out', 1, Len(out)) = out
          /\ outEv'[Len(out')] = engLog[Len(engLog)][1]

\* C21: at most one engine call of a session is in flight at any time, and
\* exactly while run() awaits one; run() takes the next event from the
\* queue, and starts an engine call, only when no call is in flight; and
\* every item is yielded in the step in which the engine call that produced
\* it comes back, one item per call and appended behind the earlier ones,
\* so the order of the items is the order in which their calls completed.
C21_OneCallInFlight == [](C21_AtMostOne) /\ [][C21_Step]_vars

\* C21 witness: the engine call of a FLUSH is in flight after an earlier
\* call has come back and produced an item, while an event waits in the queue.
C21_Witness ==
    /\ rPc = "flush_await"
    /\ InFlight = 1
    /\ engDone >= 1
    /\ out # <<>>
    /\ q # <<>>

\* C22 as stated: of two partial cycles of one frame, the later one reads a
\* shorter tail than the earlier one.
C22_TailShrinks ==
    \A k \in DOMAIN processed :
        \A i, j \in CallsOf(k) :
            (processed[k].kind = "AUDIO" /\ i < j) => engLog[j][2] < engLog[i][2]

C22_SameTail ==
    /\ \A k \in DOMAIN processed :
          \A i, j \in CallsOf(k) :
              processed[k].kind = "AUDIO" => engLog[i][2] = engLog[j][2]
    /\ FrameCurrent =>
          \A i \in CallsOf(Len(processed)) :
              engLog[i][2] = Len(tail_ms(win, <<cfg.tail_ms>>, TRUE))
    /\ \A i, j \in DOMAIN engLog : i < j => engLog[i][1] <= engLog[j][1]

C22_Step ==
    /\ processed' # processed =>
          /\ rPc = "get"
          /\ cfg.emit_partials => since_emit < stride_samples
    /\ (rPc = "while" /\ engLog' # engLog) =>
          /\ engAudio' = tail_ms(win, <<cfg.tail_ms>>, TRUE)
          /\ win' = win

\* C22 (amended): the partial cycles of a frame that crosses several stride
\* boundaries all run before the next event is taken from the queue, and
\* each reads the tail of the buffer as it then is; the buffer does not
\* change between them, so every cycle of the burst reads the same tail,
\* the one tail_ms(self.tail_ms) gives for that buffer: it does not shrink.
C22_BurstRereadsSameTail == [](C22_SameTail) /\ [][C22_Step]_vars

\* C22 witness: a frame has made two partial cycles over a buffer of three
\* samples, each reading the same two-sample tail.
C22_Witness ==
    /\ FrameCurrent
    /\ Cardinality(CallsOf(Len(processed))) = 2
    /\ current_samples(win) = 3
    /\ \A i \in CallsOf(Len(processed)) : engLog[i][2] = 2

\* C23: when the engine call of a FLUSH or an END fails, the error reaches
\* the consumer of run() only after the session has cleared its state: at
\* the point where run() has raised the engine's error, the buffer is empty,
\* _since_emit is 0 and the hypothesis is empty.
C23_ClearedBeforeRaise ==
    (rPc = "raised" /\ rExc = "EngineError" /\ CurrentIs({"FLUSH", "END"})) =>
        /\ current_samples(win) = 0
        /\ since_emit = 0
        /\ hypothesis = <<>>

\* C25: in a session whose window holds at least one sample, the buffer is
\* non-empty whenever the hypothesis is non-empty; so no FINAL is made of
\* the stitched partials alone: every FINAL was yielded by a FLUSH or an END
\* that called the engine itself, exactly once and with a non-empty buffer,
\* before yielding it.
C25_HypothesisNeedsAudio ==
    win.max_samples >= 1 =>
        /\ hypothesis # <<>> => current_samples(win) > 0
        /\ \A i \in DOMAIN out :
              out[i][1] = "FINAL" =>
                  /\ IsControl(processed[outEv[i]])
                  /\ Cardinality(CallsOf(outEv[i])) = 1
                  /\ \A c \in CallsOf(outEv[i]) : engLog[c][2] > 0
                  /\ \A c \in CallsOf(outEv[i]) : c <= engDone

\* C25 witness: a FLUSH taken with a non-empty hypothesis and a non-empty
\* buffer has called the engine on the buffer and yielded its FINAL, which
\* is longer than the hypothesis the partials had built.
C25_Witness ==
    /\ rPc = "flush_yield"
    /\ hypothesis # <<>>
    /\ current_samples(win) > 0
    /\ out[Len(out)][1] = "FINAL"
    /\ out[Len(out)][2] # hypothesis
    /\ CallsOf(Len(processed)) = {Len(engLog)}

---------------------------------------------------------------------------
(* Termination of run(), checked under SpecLive *)

\* The position of the first END enqueued (0: none).
FirstEnd ==
    IF EndPositions(enqueued) = {} THEN 0
    ELSE CHOOSE m \in EndPositions(enqueued) : \A k \in EndPositions(enqueued) : m <= k

\* run() has returned after processing the first END and everything before it.
EndedAtFirstEnd ==
    /\ rPc = "done"
    /\ processed = FirstK(enqueued, FirstEnd)

\* C26: once an END is in the queue, and given that every engine call
\* returns and the consumer keeps asking for items, run() eventually
\* processes that END and returns, having processed every event enqueued
\* before it.
C26_EndIsReached == (FirstEnd > 0) ~> EndedAtFirstEnd

---------------------------------------------------------------------------
(* SpecGrpc: one call of AsrService.StreamingRecognize.                    *)
(*                                                                         *)
(* grpc_service.py declares `nonlocal current_utt` at line 65, after       *)
(* reader() has read the name at line 63; Python rejects the module with a *)
(* SyntaxError, so as the file stands no handler exists.  The model reads  *)
(* the declaration as standing at the head of reader(), where the language *)
(* wants it, and follows the statements of the handler from there.         *)

MaxRequests == 2

RpcQueueMaxsize == 512

UtteranceIds == {"", "u1"}

ControlTypes == {"FLUSH", "END", "OTHER"}

\* The messages a client can send: one of the fields audio / control, or neither.
Requests ==
    {[data |-> d, utterance_id |-> u, field |-> "audio", type |-> "none"] :
        u \in UtteranceIds, d \in {<<>>, silence(1)}}
    \cup {[data |-> <<>>, utterance_id |-> u, field |-> "control", type |-> c] :
            u \in UtteranceIds, c \in ControlTypes}
    \cup {[data |-> <<>>, utterance_id |-> u, field |-> "none", type |-> "none"] :
            u \in UtteranceIds}

\* The fields of the dataclass Event of the handler.
RpcEventFields == {"kind", "data", "ctrl", "utt_id"}

\* Event(...) called with the keyword arguments kwargs: a dataclass __init__
\* raises TypeError for a keyword that is not one of its fields.
RpcEvent(kwargs) ==
    IF DOMAIN kwargs \subseteq RpcEventFields
    THEN [exc |-> "none",
          ev |-> kwargs @@ [kind |-> "none", data |-> "None", ctrl |-> "None", utt_id |-> ""]]
    ELSE [exc |-> "TypeError"]

\* await q.put(ev) by reader(), which then goes on at `resume`: the put
\* suspends while the queue is full.
RpcPut(queue, ev, resume, pending) ==
    IF Len(queue) < RpcQueueMaxsize
    THEN [q |-> Append(queue, ev), task |-> [exc |-> pending, pc |-> resume, putting |-> <<>>]]
    ELSE [q |-> queue, task |-> [exc |-> pending, pc |-> "put", putting |-> <<ev, resume>>]]

\* reader()'s finally block, entered with the exception `pending` in flight
\* ("none" when the stream ended): it builds the END event and puts it.
ReaderFinally(utt, pending, queue) ==
    LET r == RpcEvent([kind |-> "CONTROL", ctrl |-> "END", utt |-> utt])
    IN  IF r.exc # "none"
        THEN [q |-> queue, task |-> [exc |-> r.exc, pc |-> "done", putting |-> <<>>]]
        ELSE RpcPut(queue, r.ev, "done", pending)

\* The client writes one more request to the stream.
ClientSend(req) ==
    /\ request_iterator.state = "open"
    /\ Len(request_iterator.sent) < MaxRequests
    /\ request_iterator' = [request_iterator EXCEPT !.sent = Append(@, req)]
    /\ UNCHANGED <<winVars, stitchVars, sessVars, current_utt, reader_task, rpc_q,
                   rpc_pc, rpc_out>>

\* The client ends the stream: it completes it, or the transport drops.
ClientClose(how) ==
    /\ request_iterator.state = "open"
    /\ request_iterator' = [request_iterator EXCEPT !.state = how]
    /\ UNCHANGED <<winVars, stitchVars, sessVars, current_utt, reader_task, rpc_q,
                   rpc_pc, rpc_out>>

\* reader() receives the next request: one pass of the body of `async for`.
ReaderNext ==
    /\ reader_task.pc = "iter"
    /\ request_iterator.taken < Len(request_iterator.sent)
    /\ LET req == request_iterator.sent[request_iterator.taken + 1]
           utt == IF current_utt = "" /\ req.utterance_id # ""
                  THEN req.utterance_id ELSE current_utt
           r   == IF req.field = "audio"
                  THEN RpcEvent([kind |-> "AUDIO", data |-> req.data, utt |-> utt])
                  ELSE RpcEvent([kind |-> "CONTROL", ctrl |-> req.type, utt |-> utt])
           res == IF req.field = "none" THEN [q |-> rpc_q, task |-> reader_task]
                  ELSE IF r.exc # "none" THEN ReaderFinally(utt, r.exc, rpc_q)
                  ELSE RpcPut(rpc_q, r.ev, "iter", "none")
       IN  /\ request_iterator' = [request_iterator EXCEPT !.taken = @ + 1]
           /\ current_utt' = utt
           /\ rpc_q' = res.q
           /\ reader_task' = res.task
    /\ UNCHANGED <<winVars, stitchVars, sessVars, rpc_pc, rpc_out>>

\* The inbound stream is over and reader() has taken all of it: `async for`
\* ends and the finally block runs.
ReaderEnd ==
    /\ reader_task.pc = "iter"
    /\ request_iterator.state # "open"
    /\ request_iterator.taken = Len(request_iterator.sent)
    /\ LET res == ReaderFinally(current_utt, "none", rpc_q)
       IN  /\ rpc_q' = res.q
           /\ reader_task' = res.task
    /\ UNCHANGED <<winVars, stitchVars, sessVars, request_iterator, current_utt,
                   rpc_pc, rpc_out>>

\* The transport cancels the handler of a dropped call while it waits in
\* q.get(): the handler's finally block cancels reader() and awaits it.  A
\* reader() still in `async for` gets CancelledError there and runs its own
\* finally block; the handler suppresses what the task raised.
RpcCancelled ==
    /\ rpc_pc = "get"
    /\ rpc_q = <<>>
    /\ request_iterator.state = "disconnected"
    /\ LET res == IF reader_task.pc = "iter"
                  THEN ReaderFinally(current_utt, "CancelledError", rpc_q)
                  ELSE [q |-> rpc_q, task |-> reader_task]
       IN  /\ rpc_q' = res.q
           /\ reader_task' = res.task
    /\ rpc_pc' = "cancelled"
    /\ UNCHANGED <<winVars, stitchVars, sessVars, request_iterator, current_utt, rpc_out>>

GrpcInit == WinIdle /\ StitchIdle /\ SessIdle /\ GrpcIdle

\* No event ever enters the queue (see C24 below), so the generator never
\* comes back from q.get(): its branches for AUDIO, FLUSH, END and the other
\* controls have no step here.
NextGrpc ==
    \/ \E req \in Requests : ClientSend(req)
    \/ \E how \in {"completed", "disconnected"} : ClientClose(how)
    \/ ReaderNext
    \/ ReaderEnd
    \/ RpcCancelled

SpecGrpc == GrpcInit /\ [][NextGrpc]_vars

\* The END events in the handler's queue.
EndsQueued == {i \in 1..Len(rpc_q) : rpc_q[i].kind = "CONTROL" /\ rpc_q[i].ctrl = "END"}

\* The END acknowledgements among the responses.
EndAcks == {i \in 1..Len(rpc_out) : rpc_out[i] = <<"CONTROL_ACK", "ended">>}

\* C24: in the gRPC streaming handler, once the inbound stream has ended
\* (completed or dropped) and reader() is through, an END event has been
\* put into the queue on its behalf, and the buffered audio is finalized
\* exactly once per call: no second END acknowledgement ever, and one
\* acknowledgement (or the END that leads to it, still queued) when the
\* call is over.
C24_EndSynthesizedOnce ==
    /\ Cardinality(EndAcks) <= 1
    /\ (request_iterator.state # "open" /\ reader_task.pc = "done")
          => (EndsQueued # {} \/ Cardinality(EndAcks) = 1)

===========================================================================
